---- MODULE Spec2Model ----
(***************************************************************************)
(* Model of the RAG micro-service turn pipeline                            *)
(* (services/RAG_service/app.py): one POST /context turn handled by        *)
(* get_context, with the four outbound calls (LLM structured call, LLM     *)
(* free-text calls, vector search, MySQL insert) as nondeterministic       *)
(* responses.                                                              *)
(*                                                                         *)
(* Strings are sequences of one-character strings, so that strip, split    *)
(* and join are computed character by character as Python computes them.   *)
(* An Optional[...] request field is a record [some, val].                 *)
(***************************************************************************)
EXTENDS Integers, Sequences, FiniteSets, TLC

\* ---------------------------------------------------------------- bounds
MaxChunks     == 2   \* objects in one vector-search response
MaxK          == 1   \* largest k a request carries
MaxContentLen == 4   \* characters of a tag reply, where every reply is tried
NumTurns      == 2   \* turns in flight at once in the concurrent specification

\* ------------------------------------------------------------- constants
DEFAULT_K == 4

\* "\n---\n", the separator of get_context
Delimiter == <<"\n", "-", "-", "-", "\n">>

\* the sentinel of get_context for an absent caller / target
Unknown == <<"u", "n", "k", "n", "o", "w", "n">>

\* characters str.strip() removes
Whitespace == {" ", "\n", "\t"}

\* ------------------------------------------------------- string helpers
SeqsUpTo(S, n) == UNION {[1..m -> S] : m \in 0..n}

RECURSIVE LStrip(_)
LStrip(s) ==
    IF s = <<>> THEN <<>>
    ELSE IF Head(s) \in Whitespace THEN LStrip(Tail(s)) ELSE s

RECURSIVE RStrip(_)
RStrip(s) ==
    IF s = <<>> THEN <<>>
    ELSE IF s[Len(s)] \in Whitespace THEN RStrip(SubSeq(s, 1, Len(s) - 1)) ELSE s

\* str.strip()
Strip(s) == RStrip(LStrip(s))

\* str.split(","): the pieces between commas, empty pieces included
RECURSIVE SplitFrom(_, _, _)
SplitFrom(s, i, cur) ==
    IF i > Len(s) THEN <<cur>>
    ELSE IF s[i] = "," THEN <<cur>> \o SplitFrom(s, i + 1, <<>>)
    ELSE SplitFrom(s, i + 1, Append(cur, s[i]))

Split(s) == SplitFrom(s, 1, <<>>)

\* a join that ends every part, the last included, with the separator
RECURSIVE JoinTrailing(_, _)
JoinTrailing(sep, parts) ==
    IF parts = <<>> THEN <<>>
    ELSE parts[1] \o sep \o JoinTrailing(sep, Tail(parts))

\* sep.join(parts)
RECURSIVE Join(_, _)
Join(sep, parts) ==
    IF parts = <<>> THEN <<>>
    ELSE IF Len(parts) = 1 THEN parts[1]
    ELSE parts[1] \o sep \o Join(sep, Tail(parts))

\* Python truthiness of an Optional[str] / Optional[int] field and `x or y`
None == [some |-> FALSE, val |-> <<>>]
Some(v) == [some |-> TRUE, val |-> v]

OrStr(opt, dflt) == IF opt.some /\ opt.val # <<>> THEN opt.val ELSE dflt

OrInt(opt, dflt) == IF opt.some /\ opt.val # 0 THEN opt.val ELSE dflt

\* ------------------------------------------------------------- requests
Questions == {<<"q">>}
Histories == {None, Some(<<>>), Some(<<"h">>)}
Callers   == {None, Some(<<>>), Some(<<"c">>)}
Targets   == {None, Some(<<>>), Some(<<"t">>)}
NoInt     == [some |-> FALSE, val |-> 0]
Ks        == {NoInt} \cup {Some(n) : n \in -1..MaxK}

RagRequest ==
    [question : Questions, history : Histories, caller_number : Callers,
     escalated_to : Targets, k : Ks]

\* --------------------------------------------- responses of the outside
NotCalled == [kind |-> "not_called"]

\* the function_call arguments of the structured LLM call, field by field:
\* a field is missing, of the declared type, or of another JSON type
\* (for is_escalation `truthy` is what bool() makes of the other value)
RewrittenTexts == {<<" ">>, <<"r">>, <<" ", "r", " ">>}
RqFields ==
    {[tag |-> "missing", val |-> <<>>], [tag |-> "other", val |-> <<>>]}
    \cup {[tag |-> "str", val |-> t] : t \in RewrittenTexts}
IeFields ==
    {[tag |-> "missing", truthy |-> FALSE]}
    \cup {[tag |-> g, truthy |-> b] : g \in {"bool", "other"}, b \in BOOLEAN}
NormalizerResponses ==
    {[kind |-> "api_error"], [kind |-> "bad_json"]}
    \cup {[kind |-> "args", rq |-> r, ie |-> e] : r \in RqFields, e \in IeFields}

\* the reply of a free-text LLM call: the call raises, the message has no
\* content, or it has a text
SummaryTexts == {<<"s">>, <<" ", "s", "\n">>}
SummarizerResponses ==
    {[kind |-> "api_error"], [kind |-> "no_content"]}
    \cup {[kind |-> "text", content |-> t] : t \in SummaryTexts}

TagContents ==
    {<<>>, <<"a">>, <<"a", ",", "b">>, <<" ", "b", " ", ",", " ", ",", "a">>}
TagResponses ==
    {[kind |-> "api_error"], [kind |-> "no_content"]}
    \cup {[kind |-> "text", content |-> t] : t \in TagContents}

\* every reply over the characters that matter to split and strip
TagAlphabet == {"a", "b", ",", " "}
AllTagResponses ==
    {[kind |-> "api_error"], [kind |-> "no_content"]}
    \cup {[kind |-> "text", content |-> t] :
            t \in SeqsUpTo(TagAlphabet, MaxContentLen)}

\* a vector search raises, or returns objects in rank order; an object has
\* a "text" property or lacks it
ChunkTexts == {<<>>, <<"a">>, <<"-">>, <<"a", "\n">>}
SearchObjects ==
    {[has_text |-> TRUE, text |-> t] : t \in ChunkTexts}
    \cup {[has_text |-> FALSE, text |-> <<>>]}
SearchResponses ==
    {[kind |-> "error"]}
    \cup {[kind |-> "objects", objects |-> o] : o \in SeqsUpTo(SearchObjects, MaxChunks)}

\* the MySQL session of one write: every step succeeds, or one of connect,
\* execute, commit raises, either a mysql.connector.Error or another
\* exception
DbResponses ==
    {[kind |-> "ok"]}
    \cup {[kind |-> "raise", at |-> a, mysql |-> m] :
            a \in {"connect", "execute", "commit"}, m \in BOOLEAN}

\* ---------------------------------------------------------------- state
VARIABLES
    req,            \* the RagRequest of the turn
    pc,             \* position of get_context
    k,              \* local k
    rewritten,      \* local rewritten
    is_escalation,  \* local is_escalation
    reason,         \* local reason
    tags,           \* local tags
    chunks,         \* local chunks
    response,       \* the RagResponse returned
    err,            \* the call whose exception left get_context
    calls,          \* number of invocations of each helper in the turn
    store,          \* rows committed to human_escalation by this process
    recorded,       \* arguments of the write_escalation call
    transcript,     \* argument of the make_reason call
    limit,          \* limit of the near_text call
    normOut,        \* what the structured LLM call answered
    sumOut,         \* what the summarizer LLM call answered
    tagOut,         \* what the tag LLM call answered
    searchOut,      \* what the vector search answered
    dbOut,          \* what the MySQL session did
    query,          \* argument of the extract_tags call
    search_tags,    \* tag list of the near_text call
    db,             \* connections and cursors this process holds open
    ts              \* the turns other worker threads have in flight

vars ==
    <<req, pc, k, rewritten, is_escalation, reason, tags, chunks, response,
      err, calls, store, recorded, transcript, limit, normOut, sumOut,
      tagOut, searchOut, dbOut, query, search_tags, db, ts>>

Helpers == {"rewrite_and_detect", "make_reason", "write_escalation",
            "extract_tags", "retrieve"}

NoResponse == [context |-> <<>>, is_escalation |-> FALSE]
NoRecord == [caller_number |-> <<>>, escalated_to |-> <<>>, reason |-> <<>>]

Init ==
    /\ req \in RagRequest
    /\ pc = "start"
    /\ k = 0
    /\ rewritten = <<>>
    /\ is_escalation = FALSE
    /\ reason = <<>>
    /\ tags = <<>>
    /\ chunks = <<>>
    /\ response = NoResponse
    /\ err = "none"
    /\ calls = [h \in Helpers |-> 0]
    /\ store = <<>>
    /\ recorded = NoRecord
    /\ transcript = <<>>
    /\ limit = 0
    /\ normOut = NotCalled
    /\ sumOut = NotCalled
    /\ tagOut = NotCalled
    /\ searchOut = NotCalled
    /\ dbOut = NotCalled
    /\ query = <<>>
    /\ search_tags = <<>>
    /\ db = [conns |-> 0, cursors |-> 0]
    /\ ts = <<>>

Called(h) == calls' = [calls EXCEPT ![h] = @ + 1]

\* ------------------------------------------------------------- helpers
\* the list comprehension of extract_tags without its `if t.strip()`
RECURSIVE StripKeepEmpty(_)
StripKeepEmpty(pieces) ==
    IF pieces = <<>> THEN <<>>
    ELSE <<Strip(Head(pieces))>> \o StripKeepEmpty(Tail(pieces))

\* FilterMap of the list comprehension of extract_tags
RECURSIVE StripNonEmpty(_)
StripNonEmpty(pieces) ==
    IF pieces = <<>> THEN <<>>
    ELSE IF Strip(Head(pieces)) # <<>>
         THEN <<Strip(Head(pieces))>> \o StripNonEmpty(Tail(pieces))
         ELSE StripNonEmpty(Tail(pieces))

\* rewrite_and_detect: json.loads, args["rewritten_query"].strip(),
\* bool(args["is_escalation"]); any exception leaves the function
rewrite_and_detect(out) ==
    IF out.kind # "args" THEN [raised |-> TRUE, rewritten |-> <<>>, esc |-> FALSE]
    ELSE IF out.rq.tag # "str" THEN [raised |-> TRUE, rewritten |-> <<>>, esc |-> FALSE]
    ELSE IF out.ie.tag = "missing" THEN [raised |-> TRUE, rewritten |-> <<>>, esc |-> FALSE]
    ELSE [raised |-> FALSE, rewritten |-> Strip(out.rq.val), esc |-> out.ie.truthy]

\* extract_tags: content.split(","), strip, drop empty; no try/except
extract_tags(out) ==
    IF out.kind # "text" THEN [raised |-> TRUE, tags |-> <<>>]
    ELSE [raised |-> FALSE, tags |-> StripNonEmpty(Split(out.content))]

\* a retrieve without the try/except
retrieve_unguarded(out) ==
    IF out.kind # "objects" THEN [raised |-> TRUE, chunks |-> <<>>]
    ELSE IF \E i \in 1..Len(out.objects) : ~out.objects[i].has_text
         THEN [raised |-> TRUE, chunks |-> <<>>]
    ELSE [raised |-> FALSE,
          chunks |-> [i \in 1..Len(out.objects) |-> out.objects[i].text]]

\* retrieve: the texts of the objects in the order returned; `except
\* Exception` turns any failure (the search, a missing "text") into []
retrieve(out) ==
    IF out.kind # "objects" THEN [raised |-> FALSE, chunks |-> <<>>]
    ELSE IF \E i \in 1..Len(out.objects) : ~out.objects[i].has_text
         THEN [raised |-> FALSE, chunks |-> <<>>]
    ELSE [raised |-> FALSE,
          chunks |-> [i \in 1..Len(out.objects) |-> out.objects[i].text]]

\* make_reason: content.strip(); no try/except
make_reason(out) ==
    IF out.kind # "text" THEN [raised |-> TRUE, reason |-> <<>>]
    ELSE [raised |-> FALSE, reason |-> Strip(out.content)]

\* a session without the `with` blocks, closed by hand after the commit
DbSessionNoWith(out) ==
    IF out.kind = "ok"
    THEN <<"connect", "cursor", "execute", "commit", "cursor.close", "conn.close">>
    ELSE IF out.at = "connect" THEN <<>>
    ELSE IF out.at = "execute" THEN <<"connect", "cursor">>
    ELSE <<"connect", "cursor", "execute">>

\* the calls of one write_escalation in order: the two `with` blocks open
\* the connection and the cursor and close both however the body ends; a
\* connect that raises opens nothing
DbSession(out) ==
    IF out.kind = "ok"
    THEN <<"connect", "cursor", "execute", "commit", "cursor.close", "conn.close">>
    ELSE IF out.at = "connect" THEN <<>>
    ELSE IF out.at = "execute"
         THEN <<"connect", "cursor", "cursor.close", "conn.close">>
    ELSE <<"connect", "cursor", "execute", "cursor.close", "conn.close">>

Count(events, e) == Cardinality({i \in DOMAIN events : events[i] = e})

\* what a session leaves open
LeftOpen(events, open, close) == Count(events, open) - Count(events, close)

\* a write_escalation on an autocommit session: the row stays when commit raises
write_escalation_autocommit(rows, row, out) ==
    LET ev == DbSession(out)
        left == [conns   |-> LeftOpen(ev, "connect", "conn.close"),
                 cursors |-> LeftOpen(ev, "cursor", "cursor.close")]
    IN
    IF out.kind = "ok" THEN [raised |-> FALSE, rows |-> Append(rows, row)] @@ left
    ELSE IF out.mysql
         THEN [raised |-> FALSE,
               rows |-> IF out.at = "commit" THEN Append(rows, row) ELSE rows] @@ left
    ELSE [raised |-> TRUE, rows |-> rows] @@ left

\* a write_escalation that keeps the rows in one shared buffer which every
\* call starts afresh
write_escalation_shared_buffer(rows, row, out) ==
    LET ev == DbSession(out)
        left == [conns   |-> LeftOpen(ev, "connect", "conn.close"),
                 cursors |-> LeftOpen(ev, "cursor", "cursor.close")]
    IN
    IF out.kind = "ok" THEN [raised |-> FALSE, rows |-> <<row>>] @@ left
    ELSE IF out.mysql THEN [raised |-> FALSE, rows |-> rows] @@ left
    ELSE [raised |-> TRUE, rows |-> rows] @@ left

\* write_escalation: one INSERT and commit inside `with connect()`;
\* `except mysql.connector.Error` swallows that class only
write_escalation(rows, row, out) ==
    LET ev == DbSession(out)
        left == [conns   |-> LeftOpen(ev, "connect", "conn.close"),
                 cursors |-> LeftOpen(ev, "cursor", "cursor.close")]
    IN
    IF out.kind = "ok" THEN [raised |-> FALSE, rows |-> Append(rows, row)] @@ left
    ELSE IF out.mysql THEN [raised |-> FALSE, rows |-> rows] @@ left
    ELSE [raised |-> TRUE, rows |-> rows] @@ left

\* an escalation response that carries the reason as context
EscalationResponseWithReason == [context |-> reason, is_escalation |-> TRUE]

\* RagResponse(context="", is_escalation=True)
EscalationResponse == [context |-> <<>>, is_escalation |-> TRUE]

\* a retrieval response whose flag is derived from the emptiness of chunks
ContextResponseFlagged(cs) ==
    [context |-> Join(Delimiter, cs), is_escalation |-> (cs = <<>>)]

\* RagResponse(context="\n---\n".join(chunks), is_escalation=False)
ContextResponse(cs) == [context |-> Join(Delimiter, cs), is_escalation |-> FALSE]

\* a transcript that is always the latest question
TranscriptQuestionOnly(r) == r.question

\* req.history or req.question
Transcript(r) == OrStr(r.history, r.question)

\* a row whose target is the sentinel whatever the request carries
EscalationRowUnknownTarget(r, why) ==
    [caller_number |-> OrStr(r.caller_number, Unknown),
     escalated_to  |-> Unknown,
     reason        |-> why]

\* the arguments of write_escalation: caller = req.caller_number or
\* "unknown", to = req.escalated_to or "unknown", reason = reason
EscalationRow(r, why) ==
    [caller_number |-> OrStr(r.caller_number, Unknown),
     escalated_to  |-> OrStr(r.escalated_to, Unknown),
     reason        |-> why]

\* a branch test that is true of any flag value
EscalationBranchAlways == is_escalation \in BOOLEAN

\* `if is_escalation:` of get_context
EscalationBranch == is_escalation

\* ------------------------------------------------------------- actions
\* get_context up to the return of rewrite_and_detect
Normalize ==
    /\ pc = "start"
    /\ \E out \in NormalizerResponses :
         LET r == rewrite_and_detect(out) IN
           /\ normOut' = out
           /\ k' = OrInt(req.k, DEFAULT_K)
           /\ Called("rewrite_and_detect")
           /\ IF r.raised
              THEN /\ pc' = "error"
                   /\ err' = "rewrite_and_detect"
                   /\ UNCHANGED <<rewritten, is_escalation>>
              ELSE /\ pc' = "normalized"
                   /\ rewritten' = r.rewritten
                   /\ is_escalation' = r.esc
                   /\ UNCHANGED err
    /\ UNCHANGED <<req, reason, tags, chunks, response, store, recorded,
                   transcript, limit, sumOut, tagOut, searchOut, dbOut,
                   query, search_tags, db, ts>>

\* if is_escalation: reason = make_reason(req.history or req.question)
MakeReason ==
    /\ pc = "normalized"
    /\ EscalationBranch
    /\ \E out \in SummarizerResponses :
         LET r == make_reason(out) IN
           /\ sumOut' = out
           /\ transcript' = Transcript(req)
           /\ Called("make_reason")
           /\ IF r.raised
              THEN /\ pc' = "error"
                   /\ err' = "make_reason"
                   /\ UNCHANGED reason
              ELSE /\ pc' = "summarized"
                   /\ reason' = r.reason
                   /\ UNCHANGED err
    /\ UNCHANGED <<req, k, rewritten, is_escalation, tags, chunks, response,
                   store, recorded, limit, normOut, tagOut, searchOut, dbOut,
                   query, search_tags, db, ts>>

\* write_escalation(caller = ... or "unknown", to = ... or "unknown", reason),
\* the statement standing at position `at` of get_context
WriteEscalationAt(at) ==
    /\ pc = at
    /\ \E out \in DbResponses :
         LET row == EscalationRow(req, reason)
             r == write_escalation(store, row, out)
         IN
           /\ dbOut' = out
           /\ recorded' = row
           /\ Called("write_escalation")
           /\ store' = r.rows
           /\ db' = [conns   |-> db.conns + r.conns,
                     cursors |-> db.cursors + r.cursors]
           /\ IF r.raised
              THEN /\ pc' = "error"
                   /\ err' = "write_escalation"
              ELSE /\ pc' = "recorded"
                   /\ UNCHANGED err
    /\ UNCHANGED <<req, k, rewritten, is_escalation, reason, tags, chunks,
                   response, transcript, limit, normOut, sumOut, tagOut,
                   searchOut, query, search_tags, ts>>

\* a write_escalation placed before the make_reason call
WriteEscalationBeforeReason == EscalationBranch /\ WriteEscalationAt("normalized")

WriteEscalation == WriteEscalationAt("summarized")

\* return RagResponse(context="", is_escalation=True)
ReturnEscalation ==
    /\ pc = "recorded"
    /\ response' = EscalationResponse
    /\ pc' = "done"
    /\ UNCHANGED <<req, k, rewritten, is_escalation, reason, tags, chunks,
                   err, calls, store, recorded, transcript, limit, normOut,
                   sumOut, tagOut, searchOut, dbOut, query, search_tags, db,
                   ts>>

\* tags = extract_tags(rewritten), the LLM replying from `replies`
ExtractTagsFrom(replies) ==
    /\ pc = "normalized"
    /\ ~EscalationBranch
    /\ \E out \in replies :
         LET r == extract_tags(out) IN
           /\ tagOut' = out
           /\ query' = rewritten
           /\ Called("extract_tags")
           /\ IF r.raised
              THEN /\ pc' = "error"
                   /\ err' = "extract_tags"
                   /\ UNCHANGED tags
              ELSE /\ pc' = "tagged"
                   /\ tags' = r.tags
                   /\ UNCHANGED err
    /\ UNCHANGED <<req, k, rewritten, is_escalation, reason, chunks,
                   response, store, recorded, transcript, limit, normOut,
                   sumOut, searchOut, dbOut, search_tags, db, ts>>

ExtractTags == ExtractTagsFrom(TagResponses)

\* a get_context that skips the search when there are no tags
RetrieveSkippingEmpty ==
    /\ pc = "tagged"
    /\ \E out \in SearchResponses :
         LET r == retrieve(out) IN
           IF tags = <<>>
           THEN /\ chunks' = <<>>
                /\ pc' = "retrieved"
                /\ UNCHANGED <<searchOut, limit, search_tags, calls>>
           ELSE /\ searchOut' = out
                /\ limit' = k
                /\ search_tags' = tags
                /\ Called("retrieve")
                /\ chunks' = r.chunks
                /\ pc' = "retrieved"
    /\ UNCHANGED <<req, k, rewritten, is_escalation, reason, tags, response,
                   err, store, recorded, transcript, normOut, sumOut, tagOut,
                   dbOut, query, db, ts>>

\* a retrieve call that is issued again after a failed search
RetrieveRetrying ==
    /\ pc = "tagged"
    /\ \E out \in SearchResponses :
         LET r == retrieve(out) IN
           /\ searchOut' = out
           /\ limit' = k
           /\ search_tags' = tags
           /\ Called("retrieve")
           /\ chunks' = r.chunks
           /\ pc' = IF out.kind = "error" THEN "tagged" ELSE "retrieved"
    /\ UNCHANGED <<req, k, rewritten, is_escalation, reason, tags, response,
                   err, store, recorded, transcript, normOut, sumOut, tagOut,
                   dbOut, query, db, ts>>

\* chunks = retrieve(tags, k)
Retrieve ==
    /\ pc = "tagged"
    /\ \E out \in SearchResponses :
         LET r == retrieve(out) IN
           /\ searchOut' = out
           /\ limit' = k
           /\ search_tags' = tags
           /\ Called("retrieve")
           /\ IF r.raised
              THEN /\ pc' = "error"
                   /\ err' = "retrieve"
                   /\ UNCHANGED chunks
              ELSE /\ pc' = "retrieved"
                   /\ chunks' = r.chunks
                   /\ UNCHANGED err
    /\ UNCHANGED <<req, k, rewritten, is_escalation, reason, tags, response,
                   store, recorded, transcript, normOut, sumOut, tagOut,
                   dbOut, query, db, ts>>

\* context = "\n---\n".join(chunks); return RagResponse(context, False)
ReturnContext ==
    /\ pc = "retrieved"
    /\ response' = ContextResponse(chunks)
    /\ pc' = "done"
    /\ UNCHANGED <<req, k, rewritten, is_escalation, reason, tags, chunks,
                   err, calls, store, recorded, transcript, limit, normOut,
                   sumOut, tagOut, searchOut, dbOut, query, search_tags, db,
                   ts>>

Next ==
    \/ Normalize
    \/ MakeReason
    \/ WriteEscalation
    \/ ReturnEscalation
    \/ ExtractTags
    \/ Retrieve
    \/ ReturnContext

Spec == Init /\ [][Next]_vars

\* extract_tags alone, on every reply up to MaxContentLen characters, from
\* the state in which get_context calls it
InitTags ==
    /\ req = [question |-> <<"q">>, history |-> None, caller_number |-> None,
              escalated_to |-> None, k |-> NoInt]
    /\ pc = "normalized"
    /\ k = DEFAULT_K
    /\ rewritten = <<"r">>
    /\ is_escalation = FALSE
    /\ reason = <<>>
    /\ tags = <<>>
    /\ chunks = <<>>
    /\ response = NoResponse
    /\ err = "none"
    /\ calls = [h \in Helpers |-> IF h = "rewrite_and_detect" THEN 1 ELSE 0]
    /\ store = <<>>
    /\ recorded = NoRecord
    /\ transcript = <<>>
    /\ limit = 0
    /\ normOut = [kind |-> "args", rq |-> [tag |-> "str", val |-> <<"r">>],
                  ie |-> [tag |-> "bool", truthy |-> FALSE]]
    /\ sumOut = NotCalled
    /\ tagOut = NotCalled
    /\ searchOut = NotCalled
    /\ dbOut = NotCalled
    /\ query = <<>>
    /\ search_tags = <<>>
    /\ db = [conns |-> 0, cursors |-> 0]
    /\ ts = <<>>

ExtractAnyTags == ExtractTagsFrom(AllTagResponses)

NextTags == ExtractAnyTags

SpecTags == InitTags /\ [][NextTags]_vars

\* ------------------------------------------------ turns run in parallel
\* get_context is a plain `def`, so the server runs each request on a
\* worker thread: several turns are in flight at once, each with its own
\* locals, sharing the table and the module-level clients
Turns == 1..NumTurns

ConcRequests ==
    {[question |-> <<"q">>, history |-> None, caller_number |-> Some(<<"c">>),
      escalated_to |-> None, k |-> NoInt],
     [question |-> <<"q">>, history |-> Some(<<"h">>), caller_number |-> None,
      escalated_to |-> Some(<<"t">>), k |-> NoInt]}

ConcNormalizerResponses ==
    {[kind |-> "api_error"]}
    \cup {[kind |-> "args", rq |-> [tag |-> "str", val |-> <<"r">>],
           ie |-> [tag |-> "bool", truthy |-> b]] : b \in BOOLEAN}
ConcSummarizerResponses ==
    {[kind |-> "api_error"]}
    \cup {[kind |-> "text", content |-> t] : t \in {<<"s">>, <<"z", " ">>}}
ConcTagResponses ==
    {[kind |-> "api_error"], [kind |-> "text", content |-> <<"a">>]}
ConcSearchResponses ==
    {[kind |-> "error"],
     [kind |-> "objects", objects |-> <<[has_text |-> TRUE, text |-> <<"a">>]>>]}
ConcDbResponses ==
    {[kind |-> "ok"],
     [kind |-> "raise", at |-> "commit", mysql |-> TRUE],
     [kind |-> "raise", at |-> "connect", mysql |-> FALSE]}

\* the locals of a turn that has not started
IdleTurn(r) ==
    [req |-> r, pc |-> "start", rewritten |-> <<>>, is_escalation |-> FALSE,
     reason |-> <<>>, tags |-> <<>>, chunks |-> <<>>, response |-> NoResponse,
     err |-> "none", recorded |-> NoRecord, normOut |-> NotCalled,
     sumOut |-> NotCalled, tagOut |-> NotCalled, searchOut |-> NotCalled,
     dbOut |-> NotCalled]

NothingLeft == [conns |-> 0, cursors |-> 0]

Raised(u, helper) == [u EXCEPT !.pc = "error", !.err = helper]

\* the next statement of get_context for the turn with locals u, the table
\* holding rows: every pair of new locals and new table it can produce
TurnSuccessors(u, rows) ==
    IF u.pc = "start" THEN
      {LET n == rewrite_and_detect(o)
           v == [u EXCEPT !.normOut = o]
       IN [turn |-> IF n.raised THEN Raised(v, "rewrite_and_detect")
                    ELSE [v EXCEPT !.pc = "normalized",
                                   !.rewritten = n.rewritten,
                                   !.is_escalation = n.esc],
           rows |-> rows, left |-> NothingLeft] : o \in ConcNormalizerResponses}
    ELSE IF u.pc = "normalized" /\ u.is_escalation THEN
      {LET m == make_reason(o)
           v == [u EXCEPT !.sumOut = o]
       IN [turn |-> IF m.raised THEN Raised(v, "make_reason")
                    ELSE [v EXCEPT !.pc = "summarized", !.reason = m.reason],
           rows |-> rows, left |-> NothingLeft] : o \in ConcSummarizerResponses}
    ELSE IF u.pc = "summarized" THEN
      {LET row == EscalationRow(u.req, u.reason)
           w == write_escalation(rows, row, o)
           v == [u EXCEPT !.dbOut = o, !.recorded = row]
       IN [turn |-> IF w.raised THEN Raised(v, "write_escalation")
                    ELSE [v EXCEPT !.pc = "recorded"],
           rows |-> w.rows,
           left |-> [conns |-> w.conns, cursors |-> w.cursors]] :
         o \in ConcDbResponses}
    ELSE IF u.pc = "recorded" THEN
      {[turn |-> [u EXCEPT !.pc = "done", !.response = EscalationResponse],
        rows |-> rows, left |-> NothingLeft]}
    ELSE IF u.pc = "normalized" THEN
      {LET e == extract_tags(o)
           v == [u EXCEPT !.tagOut = o]
       IN [turn |-> IF e.raised THEN Raised(v, "extract_tags")
                    ELSE [v EXCEPT !.pc = "tagged", !.tags = e.tags],
           rows |-> rows, left |-> NothingLeft] : o \in ConcTagResponses}
    ELSE IF u.pc = "tagged" THEN
      {LET c == retrieve(o)
           v == [u EXCEPT !.searchOut = o]
       IN [turn |-> IF c.raised THEN Raised(v, "retrieve")
                    ELSE [v EXCEPT !.pc = "retrieved", !.chunks = c.chunks],
           rows |-> rows, left |-> NothingLeft] : o \in ConcSearchResponses}
    ELSE IF u.pc = "retrieved" THEN
      {[turn |-> [u EXCEPT !.pc = "done", !.response = ContextResponse(u.chunks)],
        rows |-> rows, left |-> NothingLeft]}
    ELSE {}

\* one worker thread runs its next statement
TurnStep ==
    \E t \in DOMAIN ts :
      \E n \in TurnSuccessors(ts[t], store) :
        /\ ts' = [ts EXCEPT ![t] = n.turn]
        /\ store' = n.rows
        /\ db' = [conns   |-> db.conns + n.left.conns,
                  cursors |-> db.cursors + n.left.cursors]
        /\ UNCHANGED <<req, pc, k, rewritten, is_escalation, reason, tags,
                       chunks, response, err, calls, recorded, transcript,
                       limit, normOut, sumOut, tagOut, searchOut, dbOut,
                       query, search_tags>>

InitConc ==
    /\ req = [question |-> <<"q">>, history |-> None, caller_number |-> None,
              escalated_to |-> None, k |-> NoInt]
    /\ pc = "start"
    /\ k = 0
    /\ rewritten = <<>>
    /\ is_escalation = FALSE
    /\ reason = <<>>
    /\ tags = <<>>
    /\ chunks = <<>>
    /\ response = NoResponse
    /\ err = "none"
    /\ calls = [h \in Helpers |-> 0]
    /\ store = <<>>
    /\ recorded = NoRecord
    /\ transcript = <<>>
    /\ limit = 0
    /\ normOut = NotCalled
    /\ sumOut = NotCalled
    /\ tagOut = NotCalled
    /\ searchOut = NotCalled
    /\ dbOut = NotCalled
    /\ query = <<>>
    /\ search_tags = <<>>
    /\ db = [conns |-> 0, cursors |-> 0]
    /\ ts \in [Turns -> {IdleTurn(r) : r \in ConcRequests}]

NextConc == TurnStep

SpecConc == InitConc /\ [][NextConc]_vars

TypeOK ==
    /\ req \in RagRequest
    /\ pc \in {"start", "normalized", "summarized", "recorded", "tagged",
               "retrieved", "done", "error"}
    /\ is_escalation \in BOOLEAN
    /\ err \in {"none"} \cup Helpers
    /\ calls \in [Helpers -> 0..1]

\* ------------------------------------------------------------ properties
\* the turn is over: get_context returned or raised
Ended == pc \in {"done", "error"}

\* rewrite_and_detect returned (the Normalizer reported a flag)
Reported == pc # "start" /\ err # "rewrite_and_detect"

\* position in the joined text where chunk i starts, counted from the
\* lengths of the chunks before it
RECURSIVE ChunkOffset(_, _)
ChunkOffset(cs, i) ==
    IF i = 1 THEN 0
    ELSE ChunkOffset(cs, i - 1) + Len(cs[i - 1]) + Len(Delimiter)

\* C1: no returned response has a non-empty context together with
\* is_escalation = true.
C1_NoContextWithEscalation ==
    pc = "done" => ~(response.context # <<>> /\ response.is_escalation)

C1_Witness ==
    pc = "done" /\ response.is_escalation /\ reason # <<>>

\* C2 as stated: a returned response has is_escalation = true if and only
\* if its context is empty.
C2_FlagIffEmptyContext ==
    pc = "done" => (response.is_escalation <=> response.context = <<>>)

\* C2 amended: an escalating response has empty context; a response with
\* empty context and is_escalation = false is returned exactly on the
\* retrieval branch when the chunk list is empty or one empty text.
C2_FlagImpliesEmptyContext ==
    pc = "done" =>
      /\ response.is_escalation => response.context = <<>>
      /\ (response.context = <<>> /\ ~response.is_escalation)
           <=> (~is_escalation /\ chunks \in {<<>>, << <<>> >>})

C2_Witness ==
    /\ pc = "done"
    /\ response.context = <<>>
    /\ ~response.is_escalation
    /\ searchOut.kind = "error"

\* C3 as stated, on the turns that return: the store holds the turn's
\* record if and only if the Normalizer's flag was true, whatever the
\* insert did.
C3_RecordIffFlag ==
    pc = "done" => (is_escalation <=> store = <<recorded>>)

\* C3 amended: a record is never stored for a flag of false; for a flag of
\* true the store ends with exactly the turn's record when write_escalation
\* was reached and the insert and commit succeeded, and empty otherwise.
C3_RecordIffFlagAndInsertOk ==
    (Ended /\ Reported) =>
      /\ store = <<recorded>>
           <=> (is_escalation /\ sumOut.kind = "text" /\ dbOut.kind = "ok")
      /\ store # <<recorded>> => store = <<>>
      /\ store = <<recorded>> => recorded.reason = reason

C3_Witness ==
    pc = "done" /\ is_escalation /\ store = <<recorded>>

\* C4: the only exception a caller of get_context observes is a failure of
\* the Normalizer; a turn whose Normalizer returned ends in DONE.
C4_OnlyNormalizerFailureReachesCaller ==
    pc = "error" => err = "rewrite_and_detect"

\* C5: a turn whose flag is true invokes the Summarizer and the Recorder,
\* and never the Tag Extractor or the Retriever.
C5_EscalationRunsSummarizerAndRecorder ==
    (Ended /\ Reported /\ is_escalation) =>
      /\ calls["make_reason"] = 1
      /\ calls["write_escalation"] = 1
      /\ calls["extract_tags"] = 0
      /\ calls["retrieve"] = 0
      /\ tags = <<>>
      /\ chunks = <<>>

\* C6: a turn whose flag is false never invokes make_reason or
\* write_escalation and leaves the store as it was.
C6_NoEscalationSideEffects ==
    (Reported /\ ~is_escalation) =>
      /\ calls["make_reason"] = 0
      /\ calls["write_escalation"] = 0
      /\ sumOut = NotCalled
      /\ dbOut = NotCalled
      /\ store = <<>>

C6_Witness ==
    pc = "done" /\ ~is_escalation /\ calls["retrieve"] = 1

\* C7: an error of the vector search gives an empty chunk list, never an
\* exception, and the turn returns {context: "", is_escalation: false}.
C7_RetrievalErrorAbsorbed ==
    searchOut.kind = "error" =>
      /\ pc \in {"retrieved", "done"}
      /\ err = "none"
      /\ chunks = <<>>
      /\ pc = "done" => response = [context |-> <<>>, is_escalation |-> FALSE]

C7_Witness ==
    pc = "done" /\ searchOut.kind = "error" /\ ~response.is_escalation

\* C8: whatever exception the persistence step raises, the turn returns
\* {context: "", is_escalation: true} and nothing reaches the caller.
C8_PersistenceFailureSwallowed ==
    dbOut.kind = "raise" =>
      /\ pc \in {"recorded", "done"}
      /\ err = "none"
      /\ pc = "done" => response = [context |-> <<>>, is_escalation |-> TRUE]

\* C9: a structured result with a missing or wrongly typed field ends the
\* turn in a classification error, with no other helper called.
C9_MalformedFieldsAreFatal ==
    (/\ normOut.kind = "args"
     /\ (normOut.rq.tag # "str" \/ normOut.ie.tag # "bool")) =>
      /\ pc = "error"
      /\ err = "rewrite_and_detect"
      /\ \A h \in Helpers \ {"rewrite_and_detect"} : calls[h] = 0

\* C10: on the retrieval branch the context is the chunk texts in the
\* index's rank order, consecutive chunks separated by "\n---\n", nothing
\* before the first or after the last, and empty for no chunks.
C10_ContextIsJoinedChunks ==
    (pc = "done" /\ ~is_escalation) =>
      LET cs  == chunks
          ctx == response.context
          n   == Len(cs)
      IN
        /\ n = 0 => ctx = <<>>
        /\ n > 0 => Len(ctx) = ChunkOffset(cs, n) + Len(cs[n])
        /\ \A i \in 1..n :
             SubSeq(ctx, ChunkOffset(cs, i) + 1,
                         ChunkOffset(cs, i) + Len(cs[i])) = cs[i]
        /\ \A i \in 1..(n - 1) :
             SubSeq(ctx, ChunkOffset(cs, i) + Len(cs[i]) + 1,
                         ChunkOffset(cs, i + 1)) = <<"\n", "-", "-", "-", "\n">>
        /\ (/\ searchOut.kind = "objects"
            /\ \A i \in 1..Len(searchOut.objects) : searchOut.objects[i].has_text)
             => /\ n = Len(searchOut.objects)
                /\ \A i \in 1..n : cs[i] = searchOut.objects[i].text

C10_Witness ==
    /\ pc = "done"
    /\ ~is_escalation
    /\ Len(chunks) = 2
    /\ chunks[1] # chunks[2]
    /\ chunks[1] # <<>>

\* C11 as stated: the transcript given to make_reason is the history
\* whenever the request has one, and the question only when it has none.
C11_TranscriptIsHistoryWhenPresent ==
    calls["make_reason"] = 1 =>
      transcript = IF req.history.some THEN req.history.val ELSE req.question

\* C11 amended: the transcript is the whole history whenever the request
\* has a non-empty one, and the whole question when the history is absent
\* or the empty string.
C11_TranscriptIsNonEmptyHistoryElseQuestion ==
    calls["make_reason"] = 1 =>
      /\ (req.history.some /\ req.history.val # <<>>)
           => transcript = req.history.val
      /\ (~req.history.some \/ req.history.val = <<>>)
           => transcript = req.question

C11_Witness ==
    /\ calls["make_reason"] = 1
    /\ req.history = Some(<<"h">>)
    /\ transcript = <<"h">>

\* C12 as stated: write_escalation gets the caller and the target of the
\* request whenever they are supplied, and "unknown" only when absent.
C12_SentinelOnlyWhenAbsent ==
    calls["write_escalation"] = 1 =>
      /\ recorded.caller_number =
           IF req.caller_number.some THEN req.caller_number.val ELSE Unknown
      /\ recorded.escalated_to =
           IF req.escalated_to.some THEN req.escalated_to.val ELSE Unknown

\* C12 amended: write_escalation gets the caller (the target) of the
\* request when it is supplied and non-empty, and "unknown" when it is
\* absent or the empty string.
C12_SentinelWhenAbsentOrEmpty ==
    calls["write_escalation"] = 1 =>
      /\ (req.caller_number.some /\ req.caller_number.val # <<>>)
           => recorded.caller_number = req.caller_number.val
      /\ (~req.caller_number.some \/ req.caller_number.val = <<>>)
           => recorded.caller_number = <<"u", "n", "k", "n", "o", "w", "n">>
      /\ (req.escalated_to.some /\ req.escalated_to.val # <<>>)
           => recorded.escalated_to = req.escalated_to.val
      /\ (~req.escalated_to.some \/ req.escalated_to.val = <<>>)
           => recorded.escalated_to = <<"u", "n", "k", "n", "o", "w", "n">>

C12_Witness ==
    /\ calls["write_escalation"] = 1
    /\ req.caller_number = None
    /\ req.escalated_to = Some(<<"t">>)
    /\ recorded.caller_number = Unknown
    /\ recorded.escalated_to = <<"t">>

\* C13: the limit of the search is positive, is the k of the request
\* whenever the request carries one, and is the default exactly when it
\* carries none.
C13_LimitPositiveAndAsRequested ==
    calls["retrieve"] = 1 =>
      /\ limit > 0
      /\ req.k.some => limit = req.k.val
      /\ ~req.k.some => limit = DEFAULT_K

\* positions of the commas of s, with the two ends
Cuts(s) == {0, Len(s) + 1} \cup {i \in 1..Len(s) : s[i] = ","}

\* the piece of s that starts after cut p
PieceAfter(s, p) ==
    LET q == CHOOSE c \in Cuts(s) :
               c > p /\ \A d \in Cuts(s) : d > p => c <= d
    IN SubSeq(s, p + 1, q - 1)

\* t from its first to its last character that is not whitespace
Trimmed(t) ==
    LET ink == {i \in 1..Len(t) : t[i] \notin {" ", "\n", "\t"}} IN
    IF ink = {} THEN <<>>
    ELSE SubSeq(t, CHOOSE i \in ink : \A j \in ink : i <= j,
                   CHOOSE i \in ink : \A j \in ink : i >= j)

\* the cuts of s after which a piece with ink starts
KeptCuts(s) == {p \in Cuts(s) \ {Len(s) + 1} : Trimmed(PieceAfter(s, p)) # <<>>}

\* C14: extract_tags returns the comma-separated pieces of the reply,
\* trimmed, the empty ones dropped, in their order; no tag is empty, starts
\* or ends with whitespace or holds a comma; any number of tags is allowed.
C14_TagsAreTrimmedNonEmptyPieces ==
    (calls["extract_tags"] = 1 /\ tagOut.kind = "text") =>
      LET s    == tagOut.content
          kept == KeptCuts(s)
      IN
        /\ pc # "error"
        /\ Len(tags) = Cardinality(kept)
        /\ \A p \in kept :
             tags[Cardinality({c \in kept : c < p}) + 1] = Trimmed(PieceAfter(s, p))
        /\ \A i \in 1..Len(tags) :
             /\ tags[i] # <<>>
             /\ tags[i][1] \notin {" ", "\n", "\t"}
             /\ tags[i][Len(tags[i])] \notin {" ", "\n", "\t"}
             /\ \A j \in 1..Len(tags[i]) : tags[i][j] # ","

C14_Witness ==
    /\ pc = "tagged"
    /\ tagOut = [kind |-> "text", content |-> <<"b", ",", " ", "a">>]
    /\ tags = << <<"b">>, <<"a">> >>

\* C15: in an escalating turn write_escalation runs only after make_reason
\* returned, with the reason make_reason returned (the reply with its
\* edges trimmed), and the escalation response is produced only after
\* write_escalation finished.
C15_NormalizerSummarizerRecorderResult ==
    /\ calls["make_reason"] = 1 =>
         (calls["rewrite_and_detect"] = 1 /\ normOut.kind = "args" /\ is_escalation)
    /\ calls["write_escalation"] = 1 =>
         /\ calls["make_reason"] = 1
         /\ sumOut.kind = "text"
         /\ recorded.reason = reason
         /\ reason = Trimmed(sumOut.content)
    /\ (pc = "done" /\ response.is_escalation) =>
         (calls["write_escalation"] = 1 /\ dbOut # NotCalled)

C15_Witness ==
    /\ pc = "done"
    /\ response.is_escalation
    /\ sumOut = [kind |-> "text", content |-> <<" ", "s", "\n">>]
    /\ recorded.reason = <<"s">>
    /\ dbOut.kind = "raise"

\* C16: in one turn rewrite_and_detect is called exactly once and every
\* other helper at most once, also after a failed search or insert.
C16_EveryCallOneShot ==
    /\ \A h \in Helpers : calls[h] <= 1
    /\ pc # "start" => calls["rewrite_and_detect"] = 1
    /\ pc = "start" => \A h \in Helpers : calls[h] = 0

C16_Witness ==
    /\ pc = "done"
    /\ searchOut.kind = "error"
    /\ calls["retrieve"] = 1
    /\ calls["extract_tags"] = 1

\* C17: after write_escalation no connection or cursor it opened is still
\* open, however the session ended, and the row is in the table exactly
\* when the insert and the commit succeeded, once.
C17_ConnectionReleasedOnEveryPath ==
    /\ db.conns = 0
    /\ db.cursors = 0
    /\ calls["write_escalation"] = 1 =>
         /\ dbOut.kind = "ok" => store = <<recorded>>
         /\ dbOut.kind = "raise" => store = <<>>
    /\ calls["write_escalation"] = 0 => store = <<>>

C17_Witness ==
    /\ calls["write_escalation"] = 1
    /\ dbOut = [kind |-> "raise", at |-> "commit", mysql |-> FALSE]
    /\ pc = "error"
    /\ db.conns = 0

\* C19: extract_tags is called with the rewritten query of the Normalizer,
\* and that query is not empty after trimming: an empty or whitespace-only
\* rewritten_query never reaches extract_tags.
C19_TagQueryNonEmpty ==
    calls["extract_tags"] = 1 =>
      /\ query = rewritten
      /\ Trimmed(query) # <<>>
      /\ Trimmed(normOut.rq.val) # <<>>

\* C20: when extract_tags returns no tag the turn goes on: retrieve is
\* called once, with the empty tag list and the limit of the request, no
\* exception leaves get_context and the response has is_escalation = false.
C20_ZeroTagsStillRetrieve ==
    (calls["extract_tags"] = 1 /\ tagOut.kind = "text" /\ tags = <<>>) =>
      /\ pc \in {"tagged", "retrieved", "done"}
      /\ err = "none"
      /\ pc \in {"retrieved", "done"} =>
           /\ calls["retrieve"] = 1
           /\ searchOut # NotCalled
           /\ search_tags = <<>>
           /\ limit = k
           /\ limit = IF req.k.some /\ req.k.val # 0 THEN req.k.val ELSE DEFAULT_K
      /\ pc = "done" => ~response.is_escalation

C20_Witness ==
    /\ pc = "done"
    /\ tagOut = [kind |-> "text", content |-> <<>>]
    /\ tags = <<>>
    /\ calls["retrieve"] = 1
    /\ searchOut.kind = "objects"
    /\ ~response.is_escalation

\* what a turn with request r ends with when it runs alone on an empty
\* table and the outside answers no, so, to, se, do to its five calls
AloneOutcome(r, no, so, to, se, do) ==
    LET n == rewrite_and_detect(no) IN
    IF n.raised
    THEN [pc |-> "error", err |-> "rewrite_and_detect", response |-> NoResponse]
    ELSE IF n.esc
    THEN LET m == make_reason(so) IN
         IF m.raised
         THEN [pc |-> "error", err |-> "make_reason", response |-> NoResponse]
         ELSE IF write_escalation(<<>>, EscalationRow(r, m.reason), do).raised
         THEN [pc |-> "error", err |-> "write_escalation", response |-> NoResponse]
         ELSE [pc |-> "done", err |-> "none",
               response |-> [context |-> <<>>, is_escalation |-> TRUE]]
    ELSE IF extract_tags(to).raised
    THEN [pc |-> "error", err |-> "extract_tags", response |-> NoResponse]
    ELSE [pc |-> "done", err |-> "none",
          response |-> [context |-> Join(Delimiter, retrieve(se).chunks),
                        is_escalation |-> FALSE]]

\* the single turn of Spec ends as AloneOutcome says
AloneOutcomeIsTheSingleTurn ==
    Ended => [pc |-> pc, err |-> err, response |-> response]
               = AloneOutcome(req, normOut, sumOut, tagOut, searchOut, dbOut)

\* the turns whose insert was committed, and the row each of them owns
Committed == {t \in DOMAIN ts : ts[t].dbOut.kind = "ok"}

OwnRow(t) ==
    [caller_number |-> IF ts[t].req.caller_number.some
                          /\ ts[t].req.caller_number.val # <<>>
                       THEN ts[t].req.caller_number.val
                       ELSE <<"u", "n", "k", "n", "o", "w", "n">>,
     escalated_to  |-> IF ts[t].req.escalated_to.some
                          /\ ts[t].req.escalated_to.val # <<>>
                       THEN ts[t].req.escalated_to.val
                       ELSE <<"u", "n", "k", "n", "o", "w", "n">>,
     reason        |-> Trimmed(ts[t].sumOut.content)]

\* C18: however the turns in flight interleave, a turn that ended has the
\* outcome it has when run alone with the same request and the same
\* answers, and the table holds one row for each turn whose insert was
\* committed, with that turn's caller, target and reason: none lost, none
\* twice, none mixed.
C18_TurnsDoNotInterfere ==
    /\ \A t \in DOMAIN ts :
         ts[t].pc \in {"done", "error"} =>
           [pc |-> ts[t].pc, err |-> ts[t].err, response |-> ts[t].response]
             = AloneOutcome(ts[t].req, ts[t].normOut, ts[t].sumOut,
                            ts[t].tagOut, ts[t].searchOut, ts[t].dbOut)
    /\ Len(store) = Cardinality(Committed)
    /\ \A t \in Committed :
         Count(store, OwnRow(t))
           = Cardinality({u \in Committed : OwnRow(u) = OwnRow(t)})
    /\ \A i \in 1..Len(store) : \E t \in Committed : store[i] = OwnRow(t)
    /\ db = [conns |-> 0, cursors |-> 0]

C18_Witness ==
    /\ DOMAIN ts = Turns
    /\ \A t \in Turns : ts[t].pc = "done"
    /\ Committed = {1, 2}
    /\ OwnRow(1) # OwnRow(2)
    /\ store = <<OwnRow(2), OwnRow(1)>>

====
